---- MODULE Spec2Model ----
(***************************************************************************)
(* Model of stacierl/util/confighandler.py: ConfigHandler, the converter   *)
(* between a live object graph and a nested config document.               *)
(*                                                                         *)
(* Representation.                                                         *)
(*   - A dotted path ("stacierl.agent.Agent") is the sequence of its       *)
(*     components; substring tests and str.replace work on whole           *)
(*     components.                                                         *)
(*   - A Python dict is the sequence of its items in insertion order.      *)
(*   - id(obj) is the object's index in the heap.                          *)
(*   - A value is a record tagged by k: "plain" (a value without           *)
(*     __module__: int, str, None), "npint", "device", "enum", "ndarray",  *)
(*     "list", "ref" (an instance living in the heap), and on the document *)
(*     side also "path" (a dotted path string), "id", "dict" and "inst"    *)
(*     (an instance built by the decoder).                                 *)
(***************************************************************************)
EXTENDS Integers, Sequences, FiniteSets, TLC

VARIABLES heap, object_registry, config_dict, live, result, walk_registry

vars == <<heap, object_registry, config_dict, live, result, walk_registry>>

(***************************************************************************)
(* Bounds of the model.                                                    *)
(***************************************************************************)
\* longest list held by an attribute
MaxListLen == 2
\* depth of nested _obj_to_dict calls the interpreter allows before it
\* raises RecursionError; larger than any acyclic chain of the heap
RecursionLimit == 5

\* the objects of the heap; object 1 is the root Agent
ObjIds == {1, 2, 3}

(***************************************************************************)
(* Strings and dicts.                                                      *)
(***************************************************************************)
\* Python "pat in s" on component sequences
IsSub(pat, s) ==
    \E i \in 1..(Len(s) - Len(pat) + 1) : SubSeq(s, i, i + Len(pat) - 1) = pat

\* Python s.replace(old, new): every non-overlapping occurrence, left to right
RECURSIVE StrReplace(_, _, _)
StrReplace(s, old, new) ==
    IF Len(s) < Len(old) \/ Len(old) = 0 THEN s
    ELSE IF SubSeq(s, 1, Len(old)) = old
         THEN new \o StrReplace(SubSeq(s, Len(old) + 1, Len(s)), old, new)
         ELSE <<s[1]>> \o StrReplace(Tail(s), old, new)

Plain(v) == [k |-> "plain", v |-> v]
Item(key, val) == [key |-> key, val |-> val]

DictKeys(d) == {d[i].key : i \in 1..Len(d)}
DictGet(d, key) == d[CHOOSE i \in 1..Len(d) : d[i].key = key].val
\* d[key] = val: an existing key keeps its position, a new key goes last
DictSet(d, key, val) ==
    IF key \in DictKeys(d)
    THEN [i \in 1..Len(d) |-> IF d[i].key = key THEN Item(key, val) ELSE d[i]]
    ELSE Append(d, Item(key, val))
\* d.pop(key) / del d[key]
DictPop(d, key) == SelectSeq(d, LAMBDA it : it.key # key)
\* d.update(other)
RECURSIVE DictUpdate(_, _)
DictUpdate(d, other) ==
    IF other = <<>> THEN d
    ELSE DictUpdate(DictSet(d, other[1].key, other[1].val), Tail(other))

\* list.remove(x): the first occurrence goes
ListRemove(s, x) ==
    LET i == CHOOSE j \in 1..Len(s) : s[j] = x /\ \A m \in 1..(j - 1) : s[m] # x
    IN  SubSeq(s, 1, i - 1) \o SubSeq(s, i + 1, Len(s))
InSeq(x, s) == \E i \in 1..Len(s) : s[i] = x

(***************************************************************************)
(* The types the converter meets.  sig is the signature of the bound       *)
(* __init__ (self left out), stored the attribute names the constructor    *)
(* sets on the instance, defaults the optimizer's defaults mapping.        *)
(***************************************************************************)
Param(name) == [name |-> name, kind |-> "POSITIONAL_OR_KEYWORD"]
VarPos(name) == [name |-> name, kind |-> "VAR_POSITIONAL"]
VarKw(name) == [name |-> name, kind |-> "VAR_KEYWORD"]

Class(module, name, bases, sig, stored, isOptimizer, isEnv, defaults) ==
    [module |-> module, name |-> name, bases |-> bases, sig |-> sig,
     stored |-> stored, isOptimizer |-> isOptimizer, isEnv |-> isEnv,
     defaults |-> defaults]

ObjectBase == <<"builtins", "object">>

ClassTable ==
    [c \in {"Agent", "ModelV1", "ModelV2", "Wrap", "Cmd", "Adam", "StepLR",
            "Thing", "Cart"} |->
      CASE c = "Agent" ->
             Class(<<"stacierl", "agent">>, "Agent", <<ObjectBase>>,
                   <<Param("a"), Param("b")>>, {"a", "b"}, FALSE, FALSE, <<>>)
        [] c = "ModelV1" ->
             Class(<<"stacierl", "v1">>, "Model", <<ObjectBase>>,
                   <<Param("p")>>, {"p"}, FALSE, FALSE, <<>>)
        [] c = "ModelV2" ->
             Class(<<"stacierl", "v2">>, "Model", <<ObjectBase>>,
                   <<Param("p")>>, {"p"}, FALSE, FALSE, <<>>)
        \* conventional collector names
        [] c = "Wrap" ->
             Class(<<"stacierl", "util">>, "Wrap", <<ObjectBase>>,
                   <<Param("p"), VarPos("args"), VarKw("kwargs")>>, {"p"},
                   FALSE, FALSE, <<>>)
        \* an ordinary parameter called args, a keyword collector called options
        [] c = "Cmd" ->
             Class(<<"stacierl", "util">>, "Cmd", <<ObjectBase>>,
                   <<Param("args"), VarKw("options")>>, {"args", "options"},
                   FALSE, FALSE, <<>>)
        \* a torch.optim.Optimizer subclass of the package
        [] c = "Adam" ->
             Class(<<"stacierl", "optimizer">>, "Adam",
                   <<(<<"torch", "optim", "adam", "Adam">>)>>,
                   <<Param("params"), Param("lr"), Param("p")>>, {"p", "lr"},
                   TRUE, FALSE,
                   <<Item("lr", Plain("lr0")), Item("eps", Plain("eps0"))>>)
        [] c = "StepLR" ->
             Class(<<"torch", "optim", "lr_scheduler">>, "StepLR",
                   <<(<<"torch", "optim", "lr_scheduler", "LRScheduler">>)>>,
                   <<Param("p")>>, {"p"}, FALSE, FALSE, <<>>)
        \* a type of another package: it has __module__, nothing recognizes it
        [] c = "Thing" ->
             Class(<<"other", "pkg">>, "Thing", <<ObjectBase>>,
                   <<Param("p")>>, {"p"}, FALSE, FALSE, <<>>)
        \* a gym.Env subclass
        [] c = "Cart" ->
             Class(<<"gym", "envs">>, "Cart", <<(<<"gym", "core", "Env">>)>>,
                   <<Param("p")>>, {"p"}, FALSE, TRUE, <<>>)]

Classes == DOMAIN ClassTable

\* f"{obj.__module__}.{obj.__class__.__name__}"
ClassStr(c) == Append(ClassTable[c].module, ClassTable[c].name)

\* "stacierl." in obj.__module__ + str(type(obj).__bases__): the component
\* stacierl followed by a dot, in the module path or in the path of a base
InStacierl(c) ==
    \/ \E i \in 1..(Len(ClassTable[c].module) - 1) :
          ClassTable[c].module[i] = "stacierl"
    \/ \E b \in 1..Len(ClassTable[c].bases) :
          \E i \in 1..(Len(ClassTable[c].bases[b]) - 1) :
             ClassTable[c].bases[b][i] = "stacierl"

(***************************************************************************)
(* Encoder.  A walk returns [st, val, h, reg, info]: st is "ok" or the     *)
(* name of the exception that ended it, val the converted value, h the     *)
(* heap and reg the registry as the walk left them, info what the          *)
(* exception's message names.                                              *)
(***************************************************************************)
Ret(st, val, h, reg, info) ==
    [st |-> st, val |-> val, h |-> h, reg |-> reg, info |-> info]
NoVal == [k |-> "none"]
NoInfo == <<>>
EmptyRegistry == <<>>

\* (mutant) the assignment into the registry is lost
RegPut_Lost(reg, key, val) == reg

\* self.object_registry[key] = val
RegPut(reg, key, val) ==
    [x \in DOMAIN reg \cup {key} |-> IF x = key THEN val ELSE reg[x]]

\* inspect.signature(init_function).parameters, by name, in order
_get_init_attributes(c) ==
    [i \in 1..Len(ClassTable[c].sig) |-> ClassTable[c].sig[i].name]

\* lines 70-74: the parameters called args and kwargs leave the list
DropCollectors(names) ==
    LET a == IF InSeq("args", names) THEN ListRemove(names, "args") ELSE names
    IN  IF InSeq("kwargs", a) THEN ListRemove(a, "kwargs") ELSE a

\* (mutant) the branches the other way round: a key that is a constructor
\* name is popped from defaults, any other key stays
RECURSIVE FilterDefaults_Promote(_, _, _)
FilterDefaults_Promote(keys, names, defaults) ==
    IF keys = <<>> THEN <<names, defaults>>
    ELSE IF InSeq(keys[1], names)
         THEN FilterDefaults_Promote(Tail(keys), names,
                                     DictPop(defaults, keys[1]))
         ELSE FilterDefaults_Promote(Tail(keys), names, defaults)

\* lines 79-83: for key in list(defaults.keys()): a key that is a
\* constructor name leaves init_attributes and stays in defaults, any
\* other key is popped from defaults.  Returns <<init_attributes, defaults>>.
RECURSIVE FilterDefaults(_, _, _)
FilterDefaults(keys, names, defaults) ==
    IF keys = <<>> THEN <<names, defaults>>
    ELSE IF InSeq(keys[1], names)
         THEN FilterDefaults(Tail(keys), ListRemove(names, keys[1]), defaults)
         ELSE FilterDefaults(Tail(keys), names, DictPop(defaults, keys[1]))

\* line 116: hasattr(value, "__module__")
HasModule(value) == value.k \in {"ref", "enum"}

RECURSIVE _obj_to_dict(_, _, _, _)
RECURSIVE EncodeAttributes(_, _, _, _, _, _, _)
RECURSIVE EncodeList(_, _, _, _, _, _)

\* (mutant) a value nothing recognizes goes into the document as it is
EncodeOther_PassThrough(value, h, reg, depth) ==
    IF value.k = "ref" /\ (InStacierl(h[value.id].cls)
                             \/ ClassTable[h[value.id].cls].isOptimizer
                             \/ IsSub(<<"torch", "optim", "lr_scheduler">>,
                                      ClassTable[h[value.id].cls].module))
    THEN _obj_to_dict(value.id, h, reg, depth + 1)
    ELSE Ret("ok", value, h, reg, NoInfo)

\* lines 115-136: the else branch of the attribute loop
EncodeOther(value, h, reg, depth) ==
    IF HasModule(value)
    THEN IF value.k = "ref"
         THEN LET c == h[value.id].cls
              IN  IF \/ IsSub(<<"stacierl", "optimizer">>, ClassTable[c].module)
                     \/ InStacierl(c)
                     \/ IsSub(<<"torch", "optim", "lr_scheduler">>,
                              ClassTable[c].module)
                     \/ ClassTable[c].isOptimizer
                  THEN _obj_to_dict(value.id, h, reg, depth + 1)
                  ELSE Ret("NotImplementedError", NoVal, h, reg, ClassStr(c))
         ELSE Ret("NotImplementedError", NoVal, h, reg, <<value.k>>)
    ELSE Ret("ok", value, h, reg, NoInfo)

\* lines 89-136: one attribute value to its document value
EncodeValue(value, h, reg, depth) ==
    CASE value.k = "npint" -> Ret("ok", Plain(value.v), h, reg, NoInfo)
      [] value.k = "device" -> Ret("ok", Plain(value.v), h, reg, NoInfo)
      [] value.k = "enum" -> Ret("ok", Plain(value.v), h, reg, NoInfo)
      [] value.k = "ndarray" ->
           Ret("ok", [k |-> "list", elems |-> value.elems], h, reg, NoInfo)
      [] value.k = "ref" /\ ClassTable[h[value.id].cls].isEnv ->
           Ret("ok", [k |-> "path", v |-> ClassStr(h[value.id].cls)], h, reg,
               NoInfo)
      [] value.k = "list" -> EncodeList(value.elems, 1, <<>>, h, reg, depth)
      [] OTHER -> EncodeOther(value, h, reg, depth)

\* lines 105-113: for v in value
EncodeList(elems, i, acc, h, reg, depth) ==
    IF i > Len(elems) THEN Ret("ok", [k |-> "list", elems |-> acc], h, reg, NoInfo)
    ELSE LET v == elems[i]
         IN  IF HasModule(v)
             THEN IF v.k = "ref" /\ InStacierl(h[v.id].cls)
                  THEN LET r == _obj_to_dict(v.id, h, reg, depth + 1)
                       IN  IF r.st # "ok" THEN r
                           ELSE EncodeList(elems, i + 1, Append(acc, r.val),
                                           r.h, r.reg, depth)
                  \* line 111: continue, nothing is appended
                  ELSE EncodeList(elems, i + 1, acc, h, reg, depth)
             ELSE EncodeList(elems, i + 1, Append(acc, v), h, reg, depth)

\* lines 86-140: for attribute in init_attributes, then the registration
EncodeAttributes(o, names, i, attributes_dict, h, reg, depth) ==
    IF i > Len(names)
    THEN LET rec == [k |-> "dict", items |-> attributes_dict]
         IN  Ret("ok", rec, h, RegPut(reg, o, rec), NoInfo)
    ELSE IF names[i] \notin DOMAIN h[o].attrs
         THEN Ret("AttributeError", NoVal, h, reg, <<names[i]>>)
         ELSE LET r == EncodeValue(h[o].attrs[names[i]], h, reg, depth)
              IN  IF r.st # "ok" THEN r
                  ELSE EncodeAttributes(o, names, i + 1,
                                        DictSet(attributes_dict, names[i], r.val),
                                        r.h, r.reg, depth)

\* lines 60-140
_obj_to_dict(o, h, reg, depth) ==
    IF depth > RecursionLimit
    THEN Ret("RecursionError", NoVal, h, reg, NoInfo)
    ELSE
    LET c == h[o].cls
        tags == <<Item("class", [k |-> "path", v |-> ClassStr(c)]),
                  Item("_id", [k |-> "id", v |-> o])>>
    IN  IF o \in DOMAIN reg
        THEN Ret("ok", [k |-> "dict", items |-> tags], h, reg, NoInfo)
        ELSE LET names == DropCollectors(_get_init_attributes(c))
             IN  IF ClassTable[c].isOptimizer
                 THEN IF ~InSeq("params", names)
                      THEN Ret("ValueError", NoVal, h, reg, <<"params">>)
                      ELSE LET defaults == h[o].defaults
                               keys == [j \in 1..Len(defaults) |-> defaults[j].key]
                               f == FilterDefaults(keys,
                                                   ListRemove(names, "params"),
                                                   defaults)
                               h2 == [h EXCEPT ![o].defaults = f[2]]
                           IN  EncodeAttributes(o, f[1], 1,
                                                DictUpdate(tags, f[2]),
                                                h2, reg, depth)
                 ELSE EncodeAttributes(o, names, 1, tags, h, reg, depth)

(***************************************************************************)
(* Decoder.  A walk returns [st, val, doc, reg, lv, info]: val is the      *)
(* value returned, doc the dict it was given as the walk left it (the      *)
(* walk pops from it and assigns into it), lv the instances constructed    *)
(* so far.                                                                 *)
(***************************************************************************)
DRet(st, val, doc, reg, lv, info) ==
    [st |-> st, val |-> val, doc |-> doc, reg |-> reg, lv |-> lv, info |-> info]

IsDict(value) == value.k = "dict"
IsList(value) == value.k = "list"
Dict(items) == [k |-> "dict", items |-> items]

\* lines 163-164: str.replace returns a new string, which the loop drops;
\* class_str itself is never assigned again
RECURSIVE RewriteLoop(_, _)
RewriteLoop(class_str, class_str_replace) ==
    IF class_str_replace = <<>> THEN class_str
    ELSE LET dropped == StrReplace(class_str, class_str_replace[1][1],
                                   class_str_replace[1][2])
         IN  RewriteLoop(class_str, Tail(class_str_replace))

\* lines 182-185: rsplit(".", 1), import_module, getattr
_get_class_constructor(class_str) ==
    LET module_path == SubSeq(class_str, 1, Len(class_str) - 1)
        class_name == class_str[Len(class_str)]
    IN  IF ~\E c \in Classes : ClassTable[c].module = module_path
        THEN [st |-> "ModuleNotFoundError", c |-> "none"]
        ELSE IF ~\E c \in Classes : ClassStr(c) = class_str
             THEN [st |-> "AttributeError", c |-> "none"]
             ELSE [st |-> "ok", c |-> CHOOSE c \in Classes : ClassStr(c) = class_str]

\* line 178: constructor(**obj_config_dict).  Python binds the keywords to
\* the signature: every ordinary parameter must be given, a keyword that is
\* no ordinary parameter needs a ** collector.
Construct(c, kwargs, lv) ==
    LET sig == ClassTable[c].sig
        ordinary == {sig[i].name : i \in {j \in 1..Len(sig) :
                                          sig[j].kind = "POSITIONAL_OR_KEYWORD"}}
        collects == \E i \in 1..Len(sig) : sig[i].kind = "VAR_KEYWORD"
        given == DictKeys(kwargs)
    IN  IF ordinary \subseteq given /\ (collects \/ given \subseteq ordinary)
        THEN [st |-> "ok", lv |-> Append(lv, [cls |-> c, kwargs |-> kwargs]),
              obj |-> [k |-> "inst", i |-> Len(lv) + 1]]
        ELSE [st |-> "TypeError", lv |-> lv, obj |-> NoVal]

RECURSIVE _dict_to_obj(_, _, _, _)
RECURSIVE DecodeItems(_, _, _, _, _, _, _)
RECURSIVE DecodeEntries(_, _, _, _, _)

\* lines 171-175: for i, list_entry in enumerate(value); the list is
\* changed in place.  Returns a walk result whose doc is the list's entries.
DecodeEntries(entries, i, reg, lv, class_str_replace) ==
    IF i > Len(entries) THEN DRet("ok", NoVal, entries, reg, lv, NoInfo)
    ELSE IF IsDict(entries[i])
         THEN LET r == _dict_to_obj(entries[i], reg, lv, class_str_replace)
              IN  IF r.st # "ok"
                  THEN DRet(r.st, NoVal, [entries EXCEPT ![i] = r.doc],
                            r.reg, r.lv, r.info)
                  ELSE DecodeEntries([entries EXCEPT ![i] = r.val], i + 1,
                                     r.reg, r.lv, class_str_replace)
         ELSE DecodeEntries(entries, i + 1, reg, lv, class_str_replace)

\* lines 165-180: for attribute_name, value in obj_config_dict.items(),
\* then the construction and the registration
DecodeItems(items, i, obj_id, class_str, reg, lv, class_str_replace) ==
    IF i > Len(items)
    THEN LET ctor == _get_class_constructor(class_str)
         IN  IF ctor.st # "ok"
             THEN DRet(ctor.st, NoVal, Dict(items), reg, lv, class_str)
             ELSE LET made == Construct(ctor.c, items, lv)
                  IN  IF made.st # "ok"
                      THEN DRet(made.st, NoVal, Dict(items), reg, lv, class_str)
                      ELSE DRet("ok", made.obj, Dict(items),
                                RegPut(reg, obj_id, made.obj), made.lv, NoInfo)
    ELSE LET value == items[i].val
         IN  IF IsDict(value)
             THEN LET r == _dict_to_obj(value, reg, lv, class_str_replace)
                  IN  IF r.st # "ok"
                      THEN DRet(r.st, NoVal,
                                Dict([items EXCEPT ![i].val = r.doc]),
                                r.reg, r.lv, r.info)
                      ELSE DecodeItems([items EXCEPT ![i].val = r.val], i + 1,
                                       obj_id, class_str, r.reg, r.lv,
                                       class_str_replace)
             ELSE IF IsList(value)
             THEN LET r == DecodeEntries(value.elems, 1, reg, lv,
                                         class_str_replace)
                      changed == [items EXCEPT ![i].val.elems = r.doc]
                  IN  IF r.st # "ok"
                      THEN DRet(r.st, NoVal, Dict(changed), r.reg, r.lv, r.info)
                      ELSE DecodeItems(changed, i + 1, obj_id, class_str,
                                       r.reg, r.lv, class_str_replace)
             ELSE DecodeItems(items, i + 1, obj_id, class_str, reg, lv,
                              class_str_replace)

\* lines 152-180
_dict_to_obj(obj_config_dict, reg, lv, class_str_replace) ==
    LET items == obj_config_dict.items
    IN  IF ~("class" \in DictKeys(items) /\ "_id" \in DictKeys(items))
        THEN DRet("ok", obj_config_dict, obj_config_dict, reg, lv, NoInfo)
        ELSE LET obj_id == DictGet(items, "_id").v
                 popped == DictPop(items, "_id")
             IN  IF obj_id \in DOMAIN reg
                 THEN DRet("ok", reg[obj_id], Dict(popped), reg, lv, NoInfo)
                 ELSE LET class_str ==
                              RewriteLoop(DictGet(popped, "class").v,
                                          class_str_replace)
                      IN  DecodeItems(DictPop(popped, "class"), 1, obj_id,
                                      class_str, reg, lv, class_str_replace)

(***************************************************************************)
(* The object graphs handed to the converter.  Object 1 is an Agent with   *)
(* the attributes a and b; every other object holds one value under its    *)
(* ordinary constructor parameter.  Two families of graphs:                *)
(*   - shapes: every object is of the package; the references run freely,  *)
(*     so the graphs share sub-objects and close cycles;                   *)
(*   - kinds: object 2 is of any type, object 3 of the package or foreign, *)
(*     and the references only run forward.                                *)
(***************************************************************************)
Ref(i) == [k |-> "ref", id |-> i]
Refs == {Ref(i) : i \in ObjIds}
Scalars == {Plain("v0")}
ListElems == Scalars \cup {Ref(i) : i \in ObjIds \ {1}}
Lists == UNION {[1..n -> ListElems] : n \in 0..MaxListLen}
List(elems) == [k |-> "list", elems |-> elems]

\* the attribute store of an instance of class c built around one value
AttrsOf(c, value) ==
    CASE c = "Cmd" -> [n \in {"args", "options"} |->
                         IF n = "args" THEN value ELSE Plain("opts")]
      [] c = "Adam" -> [n \in {"p", "lr"} |->
                         IF n = "p" THEN value ELSE Plain("lr1")]
      [] OTHER -> [n \in {"p"} |-> value]

Obj(c, value) ==
    [cls |-> c, attrs |-> AttrsOf(c, value), defaults |-> ClassTable[c].defaults]

Agent(a, b) ==
    [cls |-> "Agent", attrs |-> [n \in {"a", "b"} |-> IF n = "a" THEN a ELSE b],
     defaults |-> <<>>]

ShapeHeaps ==
    {[i \in ObjIds |-> IF i = 1 THEN Agent(a, b) ELSE Obj("ModelV1", p[i])] :
        a \in Scalars \cup Refs \cup {List(l) : l \in Lists},
        b \in Scalars \cup {Ref(i) : i \in ObjIds \ {1}},
        p \in [ObjIds \ {1} -> Scalars \cup Refs]}

KindHeaps ==
    {[i \in ObjIds |-> IF i = 1 THEN Agent(a, b)
                       ELSE IF i = 2 THEN Obj(c, p) ELSE Obj(d, Plain("v0"))] :
        a \in Scalars \cup {Ref(2)} \cup {List(l) : l \in Lists},
        b \in Scalars \cup {Ref(2)},
        c \in Classes \ {"Agent"},
        p \in Scalars \cup {Ref(i) : i \in ObjIds \ {1, 2}},
        d \in {"ModelV1", "Thing"}}

Init ==
    /\ heap \in ShapeHeaps \cup KindHeaps
    /\ object_registry = EmptyRegistry
    /\ config_dict = NoVal
    /\ live = <<>>
    /\ result = [op |-> "none", st |-> "ok", val |-> NoVal, info |-> NoInfo,
                 root |-> 0, input |-> NoVal, rules |-> <<>>,
                 seeded |-> EmptyRegistry, built |-> 0,
                 before |-> EmptyRegistry]
    /\ walk_registry = EmptyRegistry

(***************************************************************************)
(* The inputs of config_dict_to_object.                                    *)
(***************************************************************************)
\* class_str_replace: no rule, a rule whose old path occurs in a type tag,
\* a rule whose old path occurs in none
RuleLists ==
    {<<>>,
     <<(<<(<<"stacierl", "v1">>), (<<"stacierl", "v2">>)>>)>>,
     <<(<<(<<"old", "pkg">>), (<<"new", "pkg">>)>>)>>}

\* object_registry: left out, an empty dict, or a dict holding an instance
\* the caller already has
External == [k |-> "ext"]
RegistryArgs == {EmptyRegistry, [i \in {2} |-> External]}

(***************************************************************************)
(* The top-level calls.                                                    *)
(***************************************************************************)
\* (mutant) the walk starts on whatever the last call left behind
RegistryAtEncodeStart_Kept(current) == current

\* line 31: self.object_registry = {}
RegistryAtEncodeStart(current) == EmptyRegistry

\* line 43: self.object_registry = object_registry or {}; an empty dict is
\* falsy, so the caller's dict is used only when it holds something
RegistryAtDecodeStart(current, object_registry_arg) ==
    IF object_registry_arg = EmptyRegistry THEN EmptyRegistry
    ELSE object_registry_arg

\* lines 33 and 45: self.object_registry = {}, which an exception of the
\* walk leaves unexecuted
RegistryAtEnd(st, reg) == IF st = "ok" THEN EmptyRegistry ELSE reg

\* lines 30-34
object_to_config_dict(stacierl_object) ==
    LET start == RegistryAtEncodeStart(object_registry)
        r == _obj_to_dict(stacierl_object, heap, start, 1)
    IN  /\ walk_registry' = start
        /\ heap' = r.h
        /\ object_registry' = RegistryAtEnd(r.st, r.reg)
        /\ config_dict' = IF r.st = "ok" THEN r.val ELSE config_dict
        \* the instances of earlier decodes are unreachable once the
        \* document that held them is replaced
        /\ live' = IF r.st = "ok" THEN <<>> ELSE live
        /\ result' = [op |-> "encode", st |-> r.st, val |-> r.val,
                      info |-> r.info, root |-> stacierl_object,
                      input |-> NoVal, rules |-> <<>>,
                      seeded |-> EmptyRegistry, built |-> 0,
                      before |-> object_registry]

\* lines 36-46
config_dict_to_object(object_registry_arg, class_str_replace) ==
    /\ config_dict # NoVal
    /\ LET start == RegistryAtDecodeStart(object_registry, object_registry_arg)
           r == _dict_to_obj(config_dict, start, live, class_str_replace)
       IN  /\ walk_registry' = start
           /\ object_registry' = RegistryAtEnd(r.st, r.reg)
           /\ config_dict' = r.doc
           /\ live' = r.lv
           /\ result' = [op |-> "decode", st |-> r.st, val |-> r.val,
                         info |-> r.info, root |-> 0, input |-> config_dict,
                         rules |-> class_str_replace,
                         seeded |-> object_registry_arg,
                         built |-> Len(r.lv) - Len(live),
                         before |-> object_registry]
    /\ UNCHANGED heap

Encode == \E o \in ObjIds : object_to_config_dict(o)
\* a decode is given rewrite rules, or a registry of its caller's
Decode ==
    \/ \E rules \in RuleLists : config_dict_to_object(EmptyRegistry, rules)
    \/ \E reg \in RegistryArgs : config_dict_to_object(reg, <<>>)

Next == Encode \/ Decode

Spec == Init /\ [][Next]_vars

(***************************************************************************)
(* Vocabulary of the properties.                                           *)
(***************************************************************************)
EncodeDone == result.op = "encode"
DecodeDone == result.op = "decode"
EncodeReturned == EncodeDone /\ result.st = "ok"
DecodeReturned == DecodeDone /\ result.st = "ok"

IsRecord(d) ==
    d.k = "dict" /\ "class" \in DictKeys(d.items) /\ "_id" \in DictKeys(d.items)
IsStub(d) == IsRecord(d) /\ DictKeys(d.items) = {"class", "_id"}
TagOf(d) == DictGet(d.items, "_id").v
PathOf(d) == DictGet(d.items, "class").v
\* the positions of a dict's attribute items
AttrItems(d) == {i \in 1..Len(d.items) : d.items[i].key \notin {"class", "_id"}}

\* a decode of the document exactly as an encode returned it, with the
\* registry left to the handler
DecodeOfEncoded == DecodeDone /\ IsRecord(result.input)
                      /\ result.seeded = EmptyRegistry
\* the object whose encoding the decoded document was
EncodedRoot == TagOf(result.input)

\* the objects an object refers to, directly or through a list
Succ(h, o) ==
    {j \in ObjIds : \E n \in DOMAIN h[o].attrs :
        LET v == h[o].attrs[n]
        IN  \/ v.k = "ref" /\ v.id = j
            \/ v.k = "list" /\ \E e \in 1..Len(v.elems) :
                                  v.elems[e].k = "ref" /\ v.elems[e].id = j}
RECURSIVE Closure(_, _)
Closure(h, S) ==
    LET T == S \cup UNION {Succ(h, o) : o \in S}
    IN  IF T = S THEN S ELSE Closure(h, T)
Reach(h, o) == Closure(h, {o})
HasCycle(h, o) == \E j \in Reach(h, o) : j \in Closure(h, Succ(h, j))

\* the ordinary (neither * nor **) parameters of a class
Ordinary(c) ==
    {ClassTable[c].sig[i].name :
        i \in {j \in 1..Len(ClassTable[c].sig) :
                 ClassTable[c].sig[j].kind = "POSITIONAL_OR_KEYWORD"}}

\* a graph built only of the package's constructible types: every parameter
\* ordinary, and readable back as an attribute
Constructible(h, o) ==
    \A j \in Reach(h, o) :
        /\ InStacierl(h[j].cls) /\ ~ClassTable[h[j].cls].isOptimizer
        /\ Len(ClassTable[h[j].cls].sig) = Cardinality(Ordinary(h[j].cls))
        /\ Ordinary(h[j].cls) = DOMAIN h[j].attrs

\* a source value and a decoded value agree under the object-to-instance map f
AgreeElem(hv, lvv, f) ==
    IF hv.k = "ref" THEN lvv.k = "inst" /\ lvv.i = f[hv.id]
    ELSE lvv.k = hv.k /\ lvv = hv
Agree(hv, lvv, f) ==
    IF hv.k = "list"
    THEN /\ lvv.k = "list" /\ Len(lvv.elems) = Len(hv.elems)
         /\ \A e \in 1..Len(hv.elems) : AgreeElem(hv.elems[e], lvv.elems[e], f)
    ELSE AgreeElem(hv, lvv, f)

\* the instance graph under val is structurally the object graph under o:
\* the same type at every node, the same attribute values, the same sharing
Equivalent(h, o, lv, val) ==
    /\ val.k = "inst"
    /\ \E f \in [Reach(h, o) -> 1..Len(lv)] :
        /\ f[o] = val.i
        /\ \A x, y \in Reach(h, o) : f[x] = f[y] => x = y
        /\ \A x \in Reach(h, o) :
            /\ lv[f[x]].cls = h[x].cls
            /\ DictKeys(lv[f[x]].kwargs) = DOMAIN h[x].attrs
            /\ \A n \in DOMAIN h[x].attrs :
                  Agree(h[x].attrs[n], DictGet(lv[f[x]].kwargs, n), f)

\* the records of a document in walk order, each with its tag, whether it
\* is a stub, its type tag and its attribute keys
RECURSIVE RecordsOf(_)
RECURSIVE RecordsOfSeq(_, _)
RecordsOfSeq(vals, i) ==
    IF i > Len(vals) THEN <<>>
    ELSE RecordsOf(vals[i]) \o RecordsOfSeq(vals, i + 1)
RecordsOf(d) ==
    IF d.k = "dict"
    THEN (IF IsRecord(d)
          THEN <<[tag |-> TagOf(d), stub |-> IsStub(d), path |-> PathOf(d),
                  keys |-> DictKeys(d.items) \ {"class", "_id"}]>>
          ELSE <<>>)
         \o RecordsOfSeq([i \in 1..Len(d.items) |-> d.items[i].val], 1)
    ELSE IF d.k = "list" THEN RecordsOfSeq(d.elems, 1)
    ELSE <<>>

\* the source object and the record at each position of an encoded
\* document that holds a record: the pairs [obj, tag].  In a list the
\* records stand for the elements of the package, in order; a list whose
\* records do not match them one to one yields the pair Unmatched.
Unmatched == [obj |-> 0, tag |-> 0]
RECURSIVE EncPairs(_, _, _)
EncPairs(hv, d, h) ==
    IF hv.k = "ref" /\ IsRecord(d)
    THEN {[obj |-> hv.id, tag |-> TagOf(d)]}
         \cup UNION {EncPairs(h[hv.id].attrs[d.items[i].key], d.items[i].val, h) :
                       i \in {j \in AttrItems(d) :
                                d.items[j].key \in DOMAIN h[hv.id].attrs}}
    ELSE IF hv.k = "list" /\ d.k = "list"
    THEN LET src == SelectSeq(hv.elems,
                              LAMBDA v : v.k = "ref" /\ InStacierl(h[v.id].cls))
             out == SelectSeq(d.elems, IsRecord)
         IN  IF Len(src) # Len(out) THEN {Unmatched}
             ELSE UNION {EncPairs(src[i], out[i], h) : i \in 1..Len(src)}
    ELSE {}

\* the record and the decoded value at each position of a decoded
\* document: the triples [tag, path, val]
RECURSIVE DecPairs(_, _, _)
DecPairs(d, v, lv) ==
    IF IsRecord(d)
    THEN {[tag |-> TagOf(d), path |-> PathOf(d), val |-> v]}
         \cup (IF v.k = "inst"
               THEN UNION {DecPairs(d.items[i].val,
                                    DictGet(lv[v.i].kwargs, d.items[i].key), lv) :
                             i \in AttrItems(d)}
               ELSE {})
    ELSE IF d.k = "list" /\ v.k = "list" /\ Len(d.elems) = Len(v.elems)
    THEN UNION {DecPairs(d.elems[i], v.elems[i], lv) : i \in 1..Len(d.elems)}
    ELSE {}

(***************************************************************************)
(* C3.  Encoding an object graph that holds a reference cycle ends         *)
(* without running out of stack: the re-entered object is found in the     *)
(* registry and a stub is returned.                                        *)
(***************************************************************************)
C3_CycleEncodeTerminates ==
    (EncodeDone /\ HasCycle(heap, result.root)) =>
        result.st # "RecursionError"

(***************************************************************************)
(* C1.  Round trip: for a graph x built only of constructible types,       *)
(* object_to_config_dict(x) returns and config_dict_to_object of what it   *)
(* returned yields a graph structurally equivalent to x.                   *)
(***************************************************************************)
C1_RoundTrip ==
    /\ (EncodeDone /\ Constructible(heap, result.root)) => result.st = "ok"
    /\ (DecodeOfEncoded /\ Constructible(heap, EncodedRoot)) =>
          /\ result.st = "ok"
          /\ Equivalent(heap, EncodedRoot, live, result.val)

\* the round trip of the graphs without a cycle (the law where it holds)
C1_RoundTripAcyclic ==
    /\ (EncodeDone /\ Constructible(heap, result.root)
          /\ ~HasCycle(heap, result.root)) => result.st = "ok"
    /\ (DecodeOfEncoded /\ Constructible(heap, EncodedRoot)) =>
          /\ result.st = "ok"
          /\ Equivalent(heap, EncodedRoot, live, result.val)

(***************************************************************************)
(* C2.  Identity law.  In the document an encode returns, two positions    *)
(* hold records with the same identity tag exactly when they refer to the  *)
(* same source object, and every occurrence of a tag after its first in    *)
(* walk order is a stub (type tag and identity tag, no attribute).  A      *)
(* decode of that document that returns has constructed one instance per   *)
(* identity tag, and two positions hold the same instance exactly when     *)
(* their records carry the same tag.                                       *)
(***************************************************************************)
C2_IdentityLaw ==
    /\ EncodeReturned =>
          LET recs == RecordsOf(result.val)
              pairs == EncPairs(Ref(result.root), result.val, heap)
          IN  /\ \A i, j \in 1..Len(recs) :
                    (i < j /\ recs[i].tag = recs[j].tag) => recs[j].stub
              /\ {p.tag : p \in pairs} = {recs[i].tag : i \in 1..Len(recs)}
              /\ Unmatched \notin pairs
              /\ \A p, q \in pairs : (p.obj = q.obj) <=> (p.tag = q.tag)
    /\ (DecodeOfEncoded /\ result.st = "ok") =>
          LET pairs == DecPairs(result.input, result.val, live)
          IN  /\ \A p, q \in pairs : (p.tag = q.tag) <=> (p.val = q.val)
              /\ \A p \in pairs : p.val.k = "inst"
              /\ result.built = Cardinality({p.tag : p \in pairs})

\* a shared sub-object went through encode and decode: the decoded
\* document holds a full record and a stub of one tag, and the decode
\* returned
C2_Witness ==
    /\ DecodeOfEncoded /\ result.st = "ok"
    /\ LET recs == RecordsOf(result.input)
       IN  \E i, j \in 1..Len(recs) :
              i < j /\ recs[i].tag = recs[j].tag /\ ~recs[i].stub /\ recs[j].stub

(***************************************************************************)
(* C4.  Type-path rewrite: a decode given rewrite rules constructs every   *)
(* record from the type at the rewritten path, each rule (old, new)        *)
(* applied in order as a literal replacement to the record's type tag.     *)
(***************************************************************************)
RECURSIVE Rewritten(_, _)
Rewritten(path, rules) ==
    IF rules = <<>> THEN path
    ELSE Rewritten(StrReplace(path, rules[1][1], rules[1][2]), Tail(rules))

C4_TypePathRewrite ==
    (DecodeOfEncoded /\ result.st = "ok") =>
        \A p \in DecPairs(result.input, result.val, live) :
            /\ p.val.k = "inst"
            /\ ClassStr(live[p.val.i].cls) = Rewritten(p.path, result.rules)

(***************************************************************************)
(* C5.  Unsupported-value rejection.  As claimed: an encode that meets an  *)
(* attribute value with a module and of no recognized kind fails with the  *)
(* unsupported-value failure, and the failure names the attribute key.     *)
(***************************************************************************)
\* a value with __module__ that no branch of the attribute loop recognizes
Unsupported(h, v) ==
    /\ v.k = "ref"
    /\ LET c == h[v.id].cls
       IN  /\ ~ClassTable[c].isEnv /\ ~ClassTable[c].isOptimizer
           /\ ~InStacierl(c)
           /\ ~IsSub(<<"torch", "optim", "lr_scheduler">>, ClassTable[c].module)

\* the attribute names the encoder reads from an object: the parameters of
\* its constructor but args and kwargs, and for an optimizer but params
\* and the keys of its defaults
ReadNames(h, o) ==
    LET c == h[o].cls
        all == {ClassTable[c].sig[i].name : i \in 1..Len(ClassTable[c].sig)}
    IN  IF ClassTable[c].isOptimizer
        THEN all \ ({"args", "kwargs", "params"}
                      \cup {ClassTable[c].defaults[i].key :
                              i \in 1..Len(ClassTable[c].defaults)})
        ELSE all \ {"args", "kwargs"}

\* the objects the walk from o enters: through the attributes read, and
\* through the list elements of the package
WalkSucc(h, o) ==
    {j \in ObjIds : \E n \in ReadNames(h, o) \cap DOMAIN h[o].attrs :
        LET v == h[o].attrs[n]
        IN  \/ v.k = "ref" /\ v.id = j /\ ~ClassTable[h[j].cls].isEnv
                 /\ ~Unsupported(h, v)
            \/ v.k = "list" /\ \E e \in 1..Len(v.elems) :
                  /\ v.elems[e].k = "ref" /\ v.elems[e].id = j
                  /\ InStacierl(h[j].cls)}
RECURSIVE WalkClosure(_, _)
WalkClosure(h, S) ==
    LET T == S \cup UNION {WalkSucc(h, o) : o \in S}
    IN  IF T = S THEN S ELSE WalkClosure(h, T)

\* the attributes, of the objects the walk from o enters, that hold an
\* unsupported value: the pairs <<object, attribute name>>
UnsupportedAttrs(h, o) ==
    {<<x, n>> \in WalkClosure(h, {o}) \X {"a", "b", "p", "args", "options"} :
        /\ n \in ReadNames(h, x) \cap DOMAIN h[x].attrs
        /\ Unsupported(h, h[x].attrs[n])}

C5_NamesAttributeKey ==
    EncodeDone =>
        /\ UnsupportedAttrs(heap, result.root) # {} =>
              result.st = "NotImplementedError"
        /\ result.st = "NotImplementedError" =>
              \E xn \in UnsupportedAttrs(heap, result.root) :
                  result.info = <<xn[2]>>

\* C5 as amended: an encode whose walk enters an object with such an
\* attribute never returns a document; it fails with NotImplementedError
\* unless the walk fails earlier for another reason, the failure names the
\* class of the offending value, and no other encode fails that way.
C5_NamesValueClass ==
    EncodeDone =>
        /\ UnsupportedAttrs(heap, result.root) # {} => result.st # "ok"
        /\ (UnsupportedAttrs(heap, result.root) # {}
              /\ ~HasCycle(heap, result.root)
              /\ \A x \in WalkClosure(heap, {result.root}) :
                    ReadNames(heap, x) \subseteq DOMAIN heap[x].attrs) =>
              result.st = "NotImplementedError"
        /\ result.st = "NotImplementedError" =>
              \E xn \in UnsupportedAttrs(heap, result.root) :
                  result.info = ClassStr(heap[heap[xn[1]].attrs[xn[2]].id].cls)

\* an encode met an unsupported attribute value below the root and failed
C5_Witness ==
    /\ EncodeDone /\ result.st = "NotImplementedError"
    /\ \E xn \in UnsupportedAttrs(heap, result.root) : xn[1] # result.root

(***************************************************************************)
(* C6.  Registry lifecycle.  As claimed: the registry is empty when the    *)
(* walk of an encode starts, and empty again when any top-level call has   *)
(* ended, whether it returned or failed.                                   *)
(***************************************************************************)
C6_EmptyAfterEveryCall ==
    /\ EncodeDone => walk_registry = EmptyRegistry
    \* stated for the graphs without a cycle, whose walks never run out of
    \* stack
    /\ (\A o \in ObjIds : ~HasCycle(heap, o)) =>
          object_registry = EmptyRegistry

\* C6 as amended: the walk of an encode starts on an empty registry and the
\* walk of a decode on the caller's registry or an empty one, never on what
\* an earlier call left; the registry is empty again when a call returns,
\* and after a call that failed it holds what the walk had recorded.
C6_EmptyAfterReturn ==
    /\ EncodeDone => walk_registry = EmptyRegistry
    /\ DecodeDone => walk_registry = result.seeded
    /\ result.st = "ok" => object_registry = EmptyRegistry
    /\ (EncodeDone /\ result.st # "ok") =>
          DOMAIN object_registry \subseteq
              WalkClosure(heap, {result.root}) \ {result.root}

\* an encode that ran after a failed call had left entries in the registry
C6_Witness ==
    /\ EncodeDone
    /\ result.before # EmptyRegistry
    /\ walk_registry = EmptyRegistry

(***************************************************************************)
(* C7.  Constructible type signature: the attribute names written to the   *)
(* record of an encoded object are exactly the parameters of its           *)
(* constructor that are neither the * nor the ** collector, whatever the   *)
(* collectors are called.  (Optimizers, whose record is built otherwise,   *)
(* are left out.)                                                          *)
(***************************************************************************)
ClassAt(path) == CHOOSE c \in Classes : ClassStr(c) = path

C7_SignatureByKind ==
    EncodeReturned =>
        LET recs == RecordsOf(result.val)
        IN  \A i \in 1..Len(recs) :
               (/\ \A j \in 1..(i - 1) : recs[j].tag # recs[i].tag
                /\ ~ClassTable[ClassAt(recs[i].path)].isOptimizer) =>
                   recs[i].keys = Ordinary(ClassAt(recs[i].path))

(***************************************************************************)
(* C8.  Sequence conversion: the encoded list has one entry per source     *)
(* element, in order: the record of an element of the package, any other   *)
(* element unchanged.                                                      *)
(***************************************************************************)
C8_ListElementwise ==
    (EncodeReturned /\ result.root = 1 /\ heap[1].attrs["a"].k = "list") =>
        LET src == heap[1].attrs["a"].elems
            out == DictGet(result.val.items, "a").elems
        IN  /\ Len(out) = Len(src)
            /\ \A i \in 1..Len(src) :
                  IF src[i].k = "ref" /\ InStacierl(heap[src[i].id].cls)
                  THEN IsRecord(out[i]) /\ TagOf(out[i]) = src[i].id
                  ELSE out[i].k = src[i].k /\ out[i] = src[i]

(***************************************************************************)
(* C9.  Optimizer special case.  As claimed: the record of an optimizer    *)
(* has no entry for params, and every key of the defaults mapping that is  *)
(* no constructor parameter is in the record with its default value.       *)
(***************************************************************************)
SigNames(c) == {ClassTable[c].sig[i].name : i \in 1..Len(ClassTable[c].sig)}
OptimizerEncoded ==
    EncodeReturned /\ ClassTable[heap[result.root].cls].isOptimizer

C9_DefaultOnlyPromoted ==
    OptimizerEncoded =>
        LET c == heap[result.root].cls
            rec == result.val.items
            defaults == ClassTable[c].defaults
        IN  /\ "params" \notin DictKeys(rec)
            /\ \A i \in 1..Len(defaults) :
                  defaults[i].key \notin SigNames(c) =>
                     /\ defaults[i].key \in DictKeys(rec)
                     /\ DictGet(rec, defaults[i].key) = defaults[i].val

\* C9 as amended: the record has no entry for params; a key of the
\* defaults mapping that is a constructor parameter is in the record with
\* the value the defaults mapping gives it, and is not read from the
\* object; a key that is no constructor parameter is in the record not at
\* all, and leaves the optimizer's own defaults mapping; every other
\* constructor parameter is read from the object.
C9_DefaultOnlyDropped ==
    OptimizerEncoded =>
        LET o == result.root
            c == heap[o].cls
            rec == result.val.items
            defaults == ClassTable[c].defaults
            kept == SelectSeq(defaults, LAMBDA it : it.key \in SigNames(c))
        IN  /\ "params" \notin DictKeys(rec)
            /\ \A i \in 1..Len(defaults) :
                  IF defaults[i].key \in SigNames(c)
                  THEN /\ defaults[i].key \in DictKeys(rec)
                       /\ DictGet(rec, defaults[i].key) = defaults[i].val
                  ELSE defaults[i].key \notin DictKeys(rec)
            /\ DictKeys(rec) = {"class", "_id"} \cup DictKeys(kept)
                                 \cup ReadNames(heap, o)
            /\ heap[o].defaults = kept

\* an optimizer whose defaults hold a constructor parameter and a key that
\* is none was encoded
C9_Witness ==
    /\ OptimizerEncoded
    /\ LET c == heap[result.root].cls
       IN  /\ \E i \in 1..Len(ClassTable[c].defaults) :
                 ClassTable[c].defaults[i].key \in SigNames(c)
           /\ \E i \in 1..Len(ClassTable[c].defaults) :
                 ClassTable[c].defaults[i].key \notin SigNames(c)

(***************************************************************************)
(* C10.  Decode repeatability: when a decode of a document has returned,   *)
(* a second decode of the same in-memory document, again on a fresh        *)
(* registry, returns a structurally equal instance graph.                  *)
(***************************************************************************)
\* two decoded values agree under the instance-to-instance map f
SameElem(v, w, f) ==
    IF v.k = "inst" THEN w.k = "inst" /\ w.i = f[v.i]
    ELSE w.k = v.k /\ w = v
SameValue(v, w, f) ==
    IF v.k = "list"
    THEN /\ w.k = "list" /\ Len(w.elems) = Len(v.elems)
         /\ \A e \in 1..Len(v.elems) : SameElem(v.elems[e], w.elems[e], f)
    ELSE SameElem(v, w, f)
SameGraph(lv, v, lw, w) ==
    /\ v.k = "inst" /\ w.k = "inst"
    /\ \E f \in [1..Len(lv) -> 1..Len(lw)] :
        /\ f[v.i] = w.i
        /\ \A x, y \in 1..Len(lv) : f[x] = f[y] => x = y
        /\ \A x \in 1..Len(lv) :
            /\ lw[f[x]].cls = lv[x].cls
            /\ Len(lw[f[x]].kwargs) = Len(lv[x].kwargs)
            /\ \A i \in 1..Len(lv[x].kwargs) :
                  /\ lw[f[x]].kwargs[i].key = lv[x].kwargs[i].key
                  /\ SameValue(lv[x].kwargs[i].val, lw[f[x]].kwargs[i].val, f)

C10_DecodeRepeatable ==
    [][(/\ DecodeOfEncoded /\ result.st = "ok"
        /\ result'.op = "decode" /\ result'.seeded = EmptyRegistry
        /\ result'.rules = result.rules) =>
           (/\ result'.st = "ok"
            /\ SameGraph(live, result.val, live', result'.val))]_vars
====
